---- MODULE Spec2Model ----
(***************************************************************************)
(* CERT Disaster App (cert_disaster_app.py): the household registry, its   *)
(* CSV batch import, and the prompt-driven add and edit flows.             *)
(*                                                                         *)
(* Text is a sequence of one-character strings.  A cell value is a tagged  *)
(* record: Null (NaN / None / SQL NULL), IntVal(i), RealVal(m, e) (the     *)
(* number m / 10^e) or TextVal(s).  Timestamps are whole seconds of the    *)
(* wall clock, which is what isoformat(timespec="seconds") keeps of it.    *)
(***************************************************************************)
EXTENDS Integers, Sequences, FiniteSets, TLC

\* ---------------------------------------------------------------- bounds
\* Most records the households table holds in the explored runs.
MaxRecords == 2
\* Last second of the wall clock in the explored runs.
MaxTime == 1
\* Most rows of one imported CSV file.
MaxBatch == 2

\* ---------------------------------------------------------------- values
Null == [t |-> "null"]
IntVal(i) == [t |-> "int", i |-> i]
RealVal(m, e) == [t |-> "real", m |-> m, e |-> e]
TextVal(s) == [t |-> "text", s |-> s]

\* pd.isna(value): None and NaN; the empty string is not NA.
IsNa(v) == v.t = "null"

\* ------------------------------------------------------------ characters
Digit == {"0", "1", "2", "3", "4", "5", "6", "7", "8", "9"}
Upper == {"A", "B", "C", "D", "E", "F", "G", "H", "I", "J", "K", "L", "M",
          "N", "O", "P", "Q", "R", "S", "T", "U", "V", "W", "X", "Y", "Z"}
Lower == {"a", "b", "c", "d", "e", "f", "g", "h", "i", "j", "k", "l", "m",
          "n", "o", "p", "q", "r", "s", "t", "u", "v", "w", "x", "y", "z"}
Space == {" ", "\t"}
Punct == {",", ".", "-", "(", ")", "@", "_", "%", "+", "#", "/"}
\* Every character but the newline: what "." of a regular expression matches.
AnyChar == Digit \cup Upper \cup Lower \cup Space \cup Punct

LowerOf == [c \in Upper |->
    CASE c = "A" -> "a" [] c = "B" -> "b" [] c = "C" -> "c" [] c = "D" -> "d"
      [] c = "E" -> "e" [] c = "F" -> "f" [] c = "G" -> "g" [] c = "H" -> "h"
      [] c = "I" -> "i" [] c = "J" -> "j" [] c = "K" -> "k" [] c = "L" -> "l"
      [] c = "M" -> "m" [] c = "N" -> "n" [] c = "O" -> "o" [] c = "P" -> "p"
      [] c = "Q" -> "q" [] c = "R" -> "r" [] c = "S" -> "s" [] c = "T" -> "t"
      [] c = "U" -> "u" [] c = "V" -> "v" [] c = "W" -> "w" [] c = "X" -> "x"
      [] c = "Y" -> "y" [] c = "Z" -> "z"]

DigitVal == [c \in Digit |->
    CASE c = "0" -> 0 [] c = "1" -> 1 [] c = "2" -> 2 [] c = "3" -> 3
      [] c = "4" -> 4 [] c = "5" -> 5 [] c = "6" -> 6 [] c = "7" -> 7
      [] c = "8" -> 8 [] c = "9" -> 9]

\* str.lower()
StrLower(s) == [i \in 1..Len(s) |-> IF s[i] \in Upper THEN LowerOf[s[i]] ELSE s[i]]

\* str.strip(): drops the leading and the trailing whitespace.
StrStrip(s) ==
    LET inked == {i \in 1..Len(s) : s[i] \notin Space}
    IN  IF inked = {} THEN << >>
        ELSE LET first == CHOOSE i \in inked : \A j \in inked : i <= j
                 last == CHOOSE i \in inked : \A j \in inked : j <= i
             IN  SubSeq(s, first, last)

\* The character U+00B2, superscript two, as one element of a text: the one
\* character modelled that str.isdigit() counts as a digit and int() rejects.
SuperscriptTwo == "sup2"

\* str.isdigit(): the decimal digits and the superscript digits.
IsDigit(s) == Len(s) > 0 /\ \A i \in 1..Len(s) : s[i] \in Digit \cup {SuperscriptTwo}

\* The texts int() and the number parser of pandas read as a whole number:
\* decimal digits only.  int() of any other text raises ValueError.
IsDecimal(s) == Len(s) > 0 /\ \A i \in 1..Len(s) : s[i] \in Digit

\* int(s) of a string of decimal digits.
RECURSIVE ParseInt(_)
ParseInt(s) ==
    IF Len(s) = 0 THEN 0
    ELSE 10 * ParseInt(SubSeq(s, 1, Len(s) - 1)) + DigitVal[s[Len(s)]]

RECURSIVE Pow10(_)
Pow10(e) == IF e = 0 THEN 1 ELSE 10 * Pow10(e - 1)

\* ---------------------------------------------------- regular expressions
\* A pattern is a sequence of items: a character class repeated lo..hi times
\* (hi = -1: unbounded).  Matching is anchored at both ends, as ^...$ under
\* re.match is on text without a newline.
Item(cls, lo, hi) == [cls |-> cls, lo |-> lo, hi |-> hi]
One(c) == Item({c}, 1, 1)
Plus(cls) == Item(cls, 1, -1)
Star(cls) == Item(cls, 0, -1)
Opt(cls) == Item(cls, 0, 1)

RECURSIVE MatchFrom(_, _, _, _)
MatchFrom(re, s, i, k) ==
    IF k > Len(re) THEN i = Len(s) + 1
    ELSE LET rest == Len(s) - i + 1
             top == IF re[k].hi = -1 \/ re[k].hi > rest THEN rest ELSE re[k].hi
         IN  \E n \in re[k].lo .. top :
                /\ \A j \in i .. i + n - 1 : s[j] \in re[k].cls
                /\ MatchFrom(re, s, i + n, k + 1)

Matches(re, s) == MatchFrom(re, s, 1, 1)

\* ^\d+\s+.+,\s*[A-Za-z .]+,\s*[A-Z]{2}\s+\d{5}$
ADDRESS_REGEX ==
    << Plus(Digit), Plus(Space), Plus(AnyChar), One(","), Star(Space),
       Plus(Upper \cup Lower \cup {" ", "."}), One(","), Star(Space),
       Item(Upper, 2, 2), Plus(Space), Item(Digit, 5, 5) >>

\* ^\s*(\(\d{3}\)|\d{3})[-\s.]?\d{3}[-\s.]?\d{4}\s*$, one pattern per
\* alternative of the area code.
PHONE_REGEX ==
    LET tail == << Opt({"-", "."} \cup Space), Item(Digit, 3, 3),
                   Opt({"-", "."} \cup Space), Item(Digit, 4, 4), Star(Space) >>
    IN  { << Star(Space), One("("), Item(Digit, 3, 3), One(")") >> \o tail,
          << Star(Space), Item(Digit, 3, 3) >> \o tail }

\* ^[A-Za-z0-9._%+-]+@[A-Za-z0-9.-]+\.[A-Za-z]{2,}$
EMAIL_REGEX ==
    << Plus(Upper \cup Lower \cup Digit \cup {".", "_", "%", "+", "-"}), One("@"),
       Plus(Upper \cup Lower \cup Digit \cup {".", "-"}), One("."),
       Item(Upper \cup Lower, 2, -1) >>

\* validate_address(address), of a string.
validate_address(address) == Matches(ADDRESS_REGEX, address.s)

\* validate_phone(phone): NaN and blank are valid (the field is unset).
validate_phone(phone) ==
    IF IsNa(phone) \/ StrStrip(phone.s) = << >> THEN TRUE
    ELSE \E re \in PHONE_REGEX : Matches(re, phone.s)

\* validate_email(email): NaN and blank are valid (the field is unset).
validate_email(email) ==
    IF IsNa(email) \/ StrStrip(email.s) = << >> THEN TRUE
    ELSE Matches(EMAIL_REGEX, email.s)

\* ------------------------------------------------------------- CSV import
CSV_COLUMNS ==
    << "address", "adults", "children", "pets", "dogs", "critical_meds",
       "meds_need_refrigerated", "has_special_needs", "has_propane_tank",
       "has_natural_gas", "phone", "email", "has_medical_training",
       "know_neighbors", "has_neighbors_key", "wants_newsletter",
       "can_cert_contact" >>

Columns == {CSV_COLUMNS[i] : i \in 1..Len(CSV_COLUMNS)}

\* The columns import_csv hands to boolean_converter.
boolean_data ==
    << "pets", "dogs", "critical_meds", "meds_need_refrigerated",
       "has_special_needs", "has_propane_tank", "has_natural_gas",
       "has_medical_training", "know_neighbors", "has_neighbors_key",
       "wants_newsletter", "can_cert_contact" >>

BooleanColumns == {boolean_data[i] : i \in 1..Len(boolean_data)}

\* The NOT NULL columns of the households table (the timestamps aside).
NotNullColumns ==
    {"address", "adults", "children", "pets", "critical_meds",
     "has_special_needs", "has_propane_tank", "has_natural_gas"}

\* The columns of the households table with INTEGER affinity.
IntegerColumns == Columns \ {"address", "phone", "email"}

\* The cell texts pd.read_csv reads as NaN (its default na_values, as far as
\* the characters modelled here spell them).
NaTexts ==
    { << >>, <<"n", "a", "n">>, <<"N", "a", "N">>, <<"N", "A">>,
      <<"N", "/", "A">>, <<"n", "/", "a">>, <<"N", "U", "L", "L">>,
      <<"n", "u", "l", "l">>, <<"N", "o", "n", "e">>, <<"#", "N", "/", "A">> }

\* pd.read_csv(file_path): the rows of the file, every cell NaN or its text.
\* (Columns are kept as text: the dtype pandas infers for a column that holds
\* nothing but numbers is not modelled.)
read_csv(file) ==
    [r \in 1..Len(file.rows) |->
        [c \in Columns |->
            IF file.rows[r][c] \in NaTexts THEN Null ELSE TextVal(file.rows[r][c])]]

\* Series.astype(str) of one cell.
AsStr(v) == IF IsNa(v) THEN <<"n", "a", "n">> ELSE v.s

TrueTokens == { <<"y", "e", "s">>, <<"y">>, <<"t", "r", "u", "e">>, <<"1">> }
FalseTokens == { <<"n", "o">>, <<"n">>, <<"f", "a", "l", "s", "e">>, <<"0">> }
NoneTokens == { << >>, <<"n", "a", "n">> }

\* boolean_converter, of one cell: .astype(str).str.strip().str.lower().map(
\* {...}); a text the dictionary does not hold maps to NaN.
boolean_converter(csv_boolean_data) ==
    LET key == StrLower(StrStrip(AsStr(csv_boolean_data)))
    IN  IF key \in TrueTokens THEN IntVal(1)
        ELSE IF key \in FalseTokens THEN IntVal(0)
        ELSE Null

\* pd.to_numeric(column, errors="raise"), of one cell: NaN stays NaN, a text
\* [+-]digits[.digits] is its number, any other text raises.
to_numeric(v) ==
    IF IsNa(v) THEN [ok |-> TRUE, v |-> Null]
    ELSE LET s == v.s
             signed == Len(s) > 0 /\ s[1] \in {"-", "+"}
             body == IF signed THEN Tail(s) ELSE s
             sign == IF signed /\ s[1] = "-" THEN -1 ELSE 1
             dots == {i \in 1..Len(body) : body[i] = "."}
         IN  IF dots = {} THEN
                 IF IsDecimal(body) THEN [ok |-> TRUE, v |-> IntVal(sign * ParseInt(body))]
                 ELSE [ok |-> FALSE, v |-> Null]
             ELSE LET d == CHOOSE i \in dots : TRUE
                      whole == SubSeq(body, 1, d - 1)
                      frac == SubSeq(body, d + 1, Len(body))
                  IN  IF /\ Cardinality(dots) = 1
                         /\ IsDecimal(whole)
                         /\ \A i \in 1..Len(frac) : frac[i] \in Digit
                      THEN [ok |-> TRUE,
                            v |-> RealVal(sign * ParseInt(whole \o frac), Len(frac))]
                      ELSE [ok |-> FALSE, v |-> Null]

\* What SQLite stores of a bound value: a real without a fraction in a column
\* of INTEGER affinity becomes the integer; NaN is bound as NULL.
Stored(column, v) ==
    IF column \in IntegerColumns /\ v.t = "real" /\ v.m % Pow10(v.e) = 0
    THEN IntVal(v.m \div Pow10(v.e))
    ELSE v

Minimum(S) == CHOOSE x \in S : \A y \in S : x <= y

\* import_csv, lines 250-256: the rows whose address does not match.
invalid_address(df) == {r \in 1..Len(df) : ~validate_address(df[r]["address"])}

\* The phone check stopping at the first row that fails it.
invalid_phone_first(df) ==
    LET bad == {r \in 1..Len(df) : ~validate_phone(df[r]["phone"])}
    IN  {r \in bad : \A other \in bad : r <= other}

\* import_csv, lines 258-264
invalid_phone(df) == {r \in 1..Len(df) : ~validate_phone(df[r]["phone"])}

\* The email check looking at the first row of the file only.
invalid_email_first_row(df) ==
    {r \in 1..Len(df) : r = 1 /\ ~validate_email(df[r]["email"])}

\* import_csv, lines 266-272
invalid_email(df) == {r \in 1..Len(df) : ~validate_email(df[r]["email"])}

\* import_csv, lines 274-281: the rows of a column pd.to_numeric raises on.
not_numeric(df, column) == {r \in 1..Len(df) : ~to_numeric(df[r][column]).ok}

\* import_csv, lines 274-290: adults and children as numbers, the boolean
\* columns through boolean_converter.
converted(df) ==
    [r \in 1..Len(df) |->
        [c \in Columns |->
            IF c \in {"adults", "children"} THEN to_numeric(df[r][c]).v
            ELSE IF c \in BooleanColumns THEN boolean_converter(df[r][c])
            ELSE df[r][c]]]

\* The dogs check with isna() in place of notna().
invalid_dogs_input_isna(df) ==
    {r \in 1..Len(df) : df[r]["pets"] = IntVal(0) /\ IsNa(df[r]["dogs"])}

\* import_csv, line 293: (pets == 0) & dogs.notna()
invalid_dogs_input(df) ==
    {r \in 1..Len(df) : df[r]["pets"] = IntVal(0) /\ ~IsNa(df[r]["dogs"])}

\* import_csv, line 301: (critical_meds == 0) & meds_need_refrigerated.notna()
invalid_refrigerated_meds_input(df) ==
    {r \in 1..Len(df) :
        df[r]["critical_meds"] = IntVal(0) /\ ~IsNa(df[r]["meds_need_refrigerated"])}

Rejected(check, pairs) ==
    [status |-> "rejected", check |-> check, pairs |-> pairs, frame |-> << >>]

\* import_csv, lines 236-306, on a file that was read: the checks in the order
\* the code runs them, each returning at its first failure.  "raised" is the
\* TypeError of re.match on a NaN address, which nothing catches.
import_validate(file) ==
    LET input_df == read_csv(file)
        missing_columns == Columns \ file.columns
        df == converted(input_df)
    IN  IF missing_columns # {} THEN
            Rejected("columns", {<<0, c>> : c \in missing_columns})
        ELSE IF \E r \in 1..Len(input_df) : IsNa(input_df[r]["address"]) THEN
            [status |-> "raised", check |-> "address", pairs |-> {}, frame |-> << >>]
        ELSE IF invalid_address(input_df) # {} THEN
            Rejected("address", invalid_address(input_df) \X {"address"})
        ELSE IF invalid_phone(input_df) # {} THEN
            Rejected("phone", invalid_phone(input_df) \X {"phone"})
        ELSE IF invalid_email(input_df) # {} THEN
            Rejected("email", invalid_email(input_df) \X {"email"})
        ELSE IF not_numeric(input_df, "adults") # {} THEN
            Rejected("numeric", {<<Minimum(not_numeric(input_df, "adults")), "adults">>})
        ELSE IF not_numeric(input_df, "children") # {} THEN
            Rejected("numeric", {<<Minimum(not_numeric(input_df, "children")), "children">>})
        ELSE IF invalid_dogs_input(df) # {} THEN
            Rejected("dogs", invalid_dogs_input(df) \X {"dogs"})
        ELSE IF invalid_refrigerated_meds_input(df) # {} THEN
            Rejected("meds_need_refrigerated",
                     invalid_refrigerated_meds_input(df) \X {"meds_need_refrigerated"})
        ELSE [status |-> "ready", check |-> "none", pairs |-> {}, frame |-> df]

\* -------------------------------------------------------- prompted input
YesInputs == { <<"y", "e", "s">>, <<"y">>, <<"t", "r", "u", "e">>, <<"1">> }
NoInputs == { <<"n", "o">>, <<"n">>, <<"f", "a", "l", "s", "e">>, <<"0">> }

\* The prompts of edit_record and add_record, in the order they are asked:
\* the column filled, the prompt text in lower case where the code tests it,
\* the value type, and whether add_record asks with mandatory=True.
Ask(key, prompt, value_type, mandatory) ==
    [key |-> key, prompt |-> prompt, value_type |-> value_type, mandatory |-> mandatory]

Prompts ==
    << Ask("address", "address", "str", TRUE),
       Ask("adults", "number of adults", "int", TRUE),
       Ask("children", "number of children", "int", TRUE),
       Ask("pets", "any pets?", "bool", TRUE),
       Ask("dogs", "any dogs?", "bool", FALSE),
       Ask("critical_meds", "any critical meds?", "bool", TRUE),
       Ask("meds_need_refrigerated", "medication needs to be refrigerated?", "bool", FALSE),
       Ask("has_special_needs", "special needs?", "bool", TRUE),
       Ask("has_propane_tank", "large propane tank?", "bool", TRUE),
       Ask("has_natural_gas", "natural gas connection?", "bool", TRUE),
       Ask("phone", "phone number", "str", FALSE),
       Ask("email", "email address", "str", FALSE),
       Ask("has_medical_training", "any medical training?", "bool", FALSE),
       Ask("know_neighbors", "know neighbors?", "bool", FALSE),
       Ask("has_neighbors_key", "have neighbor's key?", "bool", FALSE),
       Ask("wants_newsletter", "cert newsletter?", "bool", FALSE),
       Ask("can_cert_contact", "allow cert non-disaster contact?", "bool", FALSE) >>

Accept(v) == [accepted |-> TRUE, raised |-> FALSE, value |-> v]
Retry == [accepted |-> FALSE, raised |-> FALSE, value |-> Null]
\* An exception leaves the function; neither a value nor another prompt.
Raise == [accepted |-> FALSE, raised |-> TRUE, value |-> Null]

\* One pass of the while loop of edit_prompt_and_validation on one line of
\* input: the value returned, or the re-prompt of `continue`.
edit_prompt_and_validation(prompt, current_value, value_type, mandatory, line) ==
    LET input_value ==
            IF value_type = "bool" THEN StrLower(StrStrip(line)) ELSE StrStrip(line)
    IN  IF input_value = << >> THEN
            IF mandatory THEN Retry ELSE Accept(current_value)
        ELSE IF value_type = "bool" THEN
            IF input_value \in YesInputs THEN Accept(IntVal(1))
            ELSE IF input_value \in NoInputs THEN Accept(IntVal(0))
            ELSE Retry
        ELSE IF value_type = "int" THEN
            IF IsDigit(input_value) THEN
                IF IsDecimal(input_value) THEN Accept(IntVal(ParseInt(input_value)))
                ELSE Raise
            ELSE Retry
        ELSE IF prompt = "address" /\ ~validate_address(TextVal(input_value)) THEN Retry
        ELSE IF prompt = "phone number" /\ ~validate_phone(TextVal(input_value)) THEN Retry
        ELSE IF prompt = "email address" /\ ~validate_email(TextVal(input_value)) THEN Retry
        ELSE Accept(TextVal(input_value))

\* edit_record lines 476-482, add_record lines 549-555: NA becomes None, a
\* numpy scalar its Python value.
native(value) == IF IsNa(value) THEN Null ELSE value

\* ------------------------------------------------------------ sample input
Address1 == <<"1", " ", "A", ",", " ", "B", ",", " ", "O", "R", " ", "9", "7", "7", "0", "1">>
Address2 == <<"2", "2", " ", "E", "l", "m", " ", "S", "t", ",", " ", "E", "l", "y", ",", " ", "N", "V", " ", "8", "9", "3", "0", "1">>
BadAddress == <<"1", " ", "A", ",", " ", "B", ",", " ", "O", "r", " ", "9", "7", "7", "0", "1">>
Phone1 == <<"5", "4", "1", "-", "5", "5", "5", "-", "0", "1", "0", "0">>
BadPhone == <<"5", "5", "5", "-", "0", "1", "0", "0">>
Email1 == <<"a", "@", "b", ".", "o", "r", "g">>
BadEmail == <<"a", "@", "b">>

\* A well-formed CSV row: pets with a dog, no critical medication.
RowGood ==
    [c \in Columns |->
        CASE c = "address" -> Address1
          [] c = "adults" -> <<"2">>
          [] c = "children" -> <<"0">>
          [] c = "pets" -> <<"Y", "E", "S">>
          [] c = "dogs" -> <<" ", "y", " ">>
          [] c = "critical_meds" -> <<"N", "o">>
          [] c = "has_special_needs" -> <<"0">>
          [] c = "has_propane_tank" -> <<"F", "A", "L", "S", "E">>
          [] c = "has_natural_gas" -> <<"1">>
          [] c = "know_neighbors" -> <<"n">>
          [] c = "wants_newsletter" -> <<"t", "r", "u", "e">>
          [] c = "can_cert_contact" -> <<"n", "a", "n">>
          [] OTHER -> << >>]

With(row, c, text) == [row EXCEPT ![c] = text]

\* No pets, critical medication that needs no refrigeration, phone and email.
RowNoPets ==
    [RowGood EXCEPT !["pets"] = <<"n", "o">>,
                    !["dogs"] = << >>, !["critical_meds"] = <<" ", "Y", " ">>,
                    !["meds_need_refrigerated"] = <<"n", "o">>,
                    !["phone"] = Phone1, !["email"] = Email1]

Rows ==
    { RowGood,
      RowNoPets,
      \* pets = no with dogs = yes, critical_meds = no with an answer
      With(RowNoPets, "dogs", <<"y", "e", "s">>),
      With(RowGood, "meds_need_refrigerated", <<"y", "e", "s">>),
      \* critical_meds = yes with no answer
      With(RowGood, "critical_meds", <<"y", "e", "s">>),
      \* a text boolean_converter does not know, optional and mandatory column
      With(RowGood, "know_neighbors", <<"m", "a", "y", "b", "e">>),
      With(RowNoPets, "has_natural_gas", <<"m", "a", "y", "b", "e">>),
      \* blank mandatory cells
      With(RowGood, "pets", << >>),
      With(RowGood, "address", << >>),
      \* numbers that are no head counts, and no number
      [RowNoPets EXCEPT !["adults"] = <<"-", "1">>, !["children"] = <<"2", ".", "5">>],
      With(RowGood, "children", <<"a", "b", "c">>),
      \* format failures
      With(RowGood, "address", BadAddress),
      With(RowGood, "phone", BadPhone),
      With(RowNoPets, "email", BadEmail) }

RECURSIVE SeqsUpTo(_, _)
SeqsUpTo(S, n) ==
    IF n = 0 THEN {<< >>}
    ELSE LET shorter == SeqsUpTo(S, n - 1)
         IN  shorter \cup {Append(q, x) : q \in shorter, x \in S}

\* The CSV files offered to import_csv: every batch of at most MaxBatch sample
\* rows under the full header, and one file whose header lacks two columns.
Files ==
    {[columns |-> Columns, rows |-> rs] : rs \in SeqsUpTo(Rows, MaxBatch)}
        \cup {[columns |-> Columns \ {"dogs", "email"}, rows |-> <<RowGood>>]}

\* Each file with what import_validate makes of it.
ImportOutcomes == {<<file, import_validate(file)>> : file \in Files}

\* What import_validate makes of the files offered.
ImportResults == {p[2] : p \in ImportOutcomes}

Blank == [c \in Columns |-> << >>]

\* What the user types at the prompts of one edit: per column the lines typed
\* in turn at its prompt; once they are used up the user presses Enter.
EditPlans ==
    { [Blank EXCEPT !["address"] = <<Address2>>],
      [Blank EXCEPT !["address"] = <<BadAddress, Address2>>,
                    !["adults"] = <<<<"x">>, <<"3">>>>,
                    !["pets"] = <<<<"m", "a", "y", "b", "e">>, <<"N", "O">>>>,
                    !["critical_meds"] = <<<<"y">>>>,
                    !["meds_need_refrigerated"] = <<<<"n", "o">>>>,
                    !["phone"] = <<BadPhone, Phone1>>,
                    !["email"] = <<BadEmail>>],
      [Blank EXCEPT !["adults"] = <<<<SuperscriptTwo>>, <<"2">>>>] }

\* What the user types at the prompts of one add.
AddPlans ==
    { [Blank EXCEPT !["address"] = <<Address1>>,
                    !["adults"] = <<<<"2">>>>,
                    !["children"] = <<<<"0">>>>,
                    !["pets"] = <<<<"y", "e", "s">>>>,
                    !["critical_meds"] = <<<<"Y">>>>,
                    !["has_special_needs"] = <<<<"n">>>>,
                    !["has_propane_tank"] = <<<<"n", "o">>>>,
                    !["has_natural_gas"] = <<<<"t", "r", "u", "e">>>>],
      [Blank EXCEPT !["address"] = <<<< >>, BadAddress, Address2>>,
                    !["adults"] = <<<<"-", "1">>, <<"1">>>>,
                    !["children"] = <<<<"3">>>>,
                    !["pets"] = <<<<"0">>>>,
                    !["critical_meds"] = <<<<"y", "e", "p">>, <<"f", "a", "l", "s", "e">>>>,
                    !["has_special_needs"] = <<<<"1">>>>,
                    !["has_propane_tank"] = <<<<"y">>>>,
                    !["has_natural_gas"] = <<<<"n">>>>,
                    !["phone"] = <<Phone1>>,
                    !["email"] = <<Email1>>,
                    !["wants_newsletter"] = <<<<"y", "e", "s">>>>],
      [Blank EXCEPT !["address"] = <<Address1>>,
                    !["adults"] = <<<<SuperscriptTwo>>, <<"2">>>>] }

\* ------------------------------------------------------------------ state
VARIABLES
    db,              \* the households table: its rows in id order
    seq,             \* the last id AUTOINCREMENT handed out
    now,             \* the wall clock, in whole seconds
    pc,              \* "loaded", "menu", "view", "edit", "add", "crashed" or "exited"
    connection,      \* db_connection: "none" or "open"
    record_id,       \* edit_record: the id being edited
    series,          \* edit_record: the row as read when the edit began
    updated_record,  \* edit_record / add_record: the values collected so far
    field,           \* the prompt being asked: an index into Prompts
    attempt,         \* the lines already typed at that prompt
    inputs,          \* the lines the user types at the prompts, per column
    report,          \* what the last operation printed
    last_write       \* the last INSERT / UPDATE handed to the database

vars == << db, seq, now, pc, connection, record_id, series, updated_record, field, attempt,
           inputs, report, last_write >>

flow == << record_id, series, updated_record, field, attempt, inputs >>

Said(status) == [status |-> status, check |-> "none", pairs |-> {}]
NoWrite == [op |-> "none", rows |-> << >>, failed |-> FALSE]

\* The flow variables outside edit_record and add_record.
Idle ==
    /\ record_id' = 0
    /\ series' = << >>
    /\ updated_record' = << >>
    /\ field' = 0
    /\ attempt' = 0
    /\ inputs' = Blank

\* init_db, lines 193-211: whether a row breaks a NOT NULL constraint.
BreaksNotNull(values) == \E c \in NotNullColumns : IsNa(values[c])

\* INSERT INTO households: the table with one more row.
insert_households(table, id, values, created_at, updated_at) ==
    Append(table, [id |-> id,
                   v |-> [c \in Columns |-> Stored(c, values[c])],
                   created_at |-> created_at,
                   updated_at |-> updated_at])

\* The UPDATE without updated_at in its SET list.
update_households_no_stamp(table, id, values, updated_at) ==
    [i \in 1..Len(table) |->
        IF table[i].id = id
        THEN [table[i] EXCEPT !.v = [c \in Columns |-> Stored(c, values[c])]]
        ELSE table[i]]

\* The UPDATE stamping created_at along with updated_at.
update_households_restamp(table, id, values, updated_at) ==
    [i \in 1..Len(table) |->
        IF table[i].id = id
        THEN [table[i] EXCEPT !.v = [c \in Columns |-> Stored(c, values[c])],
                              !.created_at = updated_at,
                              !.updated_at = updated_at]
        ELSE table[i]]

\* UPDATE households SET <every column>, updated_at WHERE id = ?
update_households(table, id, values, updated_at) ==
    [i \in 1..Len(table) |->
        IF table[i].id = id
        THEN [table[i] EXCEPT !.v = [c \in Columns |-> Stored(c, values[c])],
                              !.updated_at = updated_at]
        ELSE table[i]]

RECURSIVE insert_many(_, _, _, _)
\* executemany of import_csv: the rows inserted in turn, ids from AUTOINCREMENT.
insert_many(table, last_id, frame, time_stamp) ==
    IF frame = << >> THEN table
    ELSE insert_many(
            insert_households(table, last_id + 1, Head(frame), time_stamp, time_stamp),
            last_id + 1, Tail(frame), time_stamp)

Init ==
    /\ db = << >>
    /\ seq = 0
    /\ now = 0
    /\ pc = "loaded"
    /\ connection = "none"
    /\ record_id = 0
    /\ series = << >>
    /\ updated_record = << >>
    /\ field = 0
    /\ attempt = 0
    /\ inputs = Blank
    /\ report = Said("started")
    /\ last_write = NoWrite

\* db_setup (lines 101-104): the connection to cert_disaster.db, and the
\* households table created if the file has none.
DbSetup ==
    /\ pc = "loaded"
    /\ connection = "none"
    /\ connection' = "open"
    /\ UNCHANGED << db, seq, now, pc, flow, report, last_write >>

\* main is called and shows its menu: by the script after db_setup (lines
\* 598-600), or by a caller that imported the module, whose db_connection is
\* None (line 11) until db_setup has run.
Main ==
    /\ pc = "loaded"
    /\ pc' = "menu"
    /\ UNCHANGED << db, seq, now, connection, flow, report, last_write >>

\* The wall clock reaches the next second.
Tick ==
    /\ now < MaxTime
    /\ now' = now + 1
    /\ UNCHANGED << db, seq, pc, connection, flow, report, last_write >>

\* import_csv on a file that was read, from what the checks make of it
\* (lines 243-331).  A rejected file prints its report and returns.  A file
\* that passes is stamped and handed to executemany; a row that breaks NOT
\* NULL raises IntegrityError there, which nothing catches: the process ends
\* and the rows inserted before it, never committed, are rolled back.
Import(out) ==
    LET time_stamp == now
        bad == {r \in 1..Len(out.frame) : BreaksNotNull(out.frame[r])}
    IN  IF out.status = "rejected" THEN
            /\ report' = [status |-> "rejected", check |-> out.check, pairs |-> out.pairs]
            /\ last_write' = NoWrite
            /\ UNCHANGED << db, seq, now, pc, flow >>
        ELSE IF out.status = "raised" THEN
            /\ pc' = "crashed"
            /\ report' = Said("TypeError")
            /\ last_write' = NoWrite
            /\ UNCHANGED << db, seq, now, flow >>
        ELSE IF bad # {} THEN
            /\ pc' = "crashed"
            /\ report' = Said("IntegrityError")
            /\ last_write' = [op |-> "insert",
                              rows |-> SubSeq(out.frame, 1, Minimum(bad)),
                              failed |-> TRUE]
            /\ UNCHANGED << db, seq, now, flow >>
        ELSE
            /\ Len(db) + Len(out.frame) <= MaxRecords
            /\ db' = insert_many(db, seq, out.frame, time_stamp)
            /\ seq' = seq + Len(out.frame)
            /\ report' = Said("imported")
            /\ last_write' = [op |-> "insert", rows |-> out.frame, failed |-> FALSE]
            /\ UNCHANGED << now, pc, flow >>

\* Menu option 1 with a path typed and a file read.
ImportCsv ==
    /\ pc = "menu"
    /\ connection = "open"
    /\ \E out \in ImportResults : Import(out)
    /\ UNCHANGED connection

\* import_csv without a connection (lines 225-228): a message, and back to
\* the menu.
ImportNotInitialized ==
    /\ pc = "menu"
    /\ connection = "none"
    /\ report' = Said("not initialized")
    /\ last_write' = NoWrite
    /\ UNCHANGED << db, seq, now, pc, connection, flow >>

\* import_csv with no path typed, or with a file pd.read_csv cannot read
\* (lines 231-241): a message, and back to the menu.
ImportNoFile ==
    /\ pc = "menu"
    /\ connection = "open"
    /\ \E why \in {"no path", "unreadable"} : report' = Said(why)
    /\ last_write' = NoWrite
    /\ UNCHANGED << db, seq, now, pc, connection, flow >>

\* Menu option 2, export_csv (lines 340-359): every stored row written to a
\* new file under output/; the table is read, never written.  Without a
\* connection pd.read_sql_query raises inside the try, and the except prints
\* the error.
ExportCsv ==
    /\ pc = "menu"
    /\ report' = IF connection = "open" THEN Said("exported") ELSE Said("export error")
    /\ last_write' = NoWrite
    /\ UNCHANGED << db, seq, now, pc, connection, flow >>

\* view_records up to its first listing (lines 367-381).
\* Without a connection pd.read_sql_query raises at line 370, outside any
\* try: the process ends with the traceback.
ViewRecords ==
    /\ pc = "menu"
    /\ IF connection = "none" THEN report' = Said("read_sql error") /\ pc' = "crashed"
       ELSE IF db = << >> THEN report' = Said("no records") /\ pc' = pc
       ELSE report' = Said("listing") /\ pc' = "view"
    /\ last_write' = NoWrite
    /\ UNCHANGED << db, seq, now, connection, flow >>

\* What the user types at the listing of view_records.
Choices == { << >>, <<"x">>, <<"0">>, <<"1">>, <<"2">>, <<"3">>, <<"4">>, <<SuperscriptTwo>> }

\* One pass of the loop of view_records (lines 384-398), and on a listed
\* number the start of edit_record (lines 411-422), which returns to the
\* listing when its SELECT finds no row of that id.
ViewChoose ==
    /\ pc = "view"
    /\ \E line \in Choices, plan \in EditPlans :
        LET choice == StrStrip(line)
            choice_int == ParseInt(choice)
            selected_id == db[choice_int].id
            edit_df == {i \in 1..Len(db) : db[i].id = selected_id}
        IN  IF choice = << >> THEN
                /\ pc' = "menu"
                /\ report' = Said("menu")
                /\ UNCHANGED flow
            ELSE IF IsDigit(choice) /\ ~IsDecimal(choice) THEN
                /\ pc' = "crashed"
                /\ report' = Said("ValueError")
                /\ UNCHANGED flow
            ELSE IF ~IsDigit(choice) \/ ~(1 <= choice_int /\ choice_int <= Len(db)) THEN
                /\ pc' = pc
                /\ report' = Said("not a record number")
                /\ UNCHANGED flow
            ELSE IF edit_df = {} THEN
                /\ pc' = pc
                /\ report' = Said("not found")
                /\ UNCHANGED flow
            ELSE
                /\ pc' = "edit"
                /\ record_id' = selected_id
                /\ series' = db[Minimum(edit_df)].v
                /\ updated_record' = << >>
                /\ field' = 1
                /\ attempt' = 0
                /\ inputs' = plan
                /\ report' = Said("editing")
    /\ last_write' = NoWrite
    /\ UNCHANGED << db, seq, now, connection >>

\* add_record up to its first prompt (lines 493-500).
AddRecord ==
    /\ pc = "menu"
    /\ Len(db) < MaxRecords
    /\ \E plan \in AddPlans :
        /\ pc' = "add"
        /\ record_id' = 0
        /\ series' = << >>
        /\ updated_record' = << >>
        /\ field' = 1
        /\ attempt' = 0
        /\ inputs' = plan
    /\ report' = Said("adding")
    /\ last_write' = NoWrite
    /\ UNCHANGED << db, seq, now, connection >>

\* The answer to the prompt being asked: the next line of the user's, through
\* one pass of edit_prompt_and_validation.  edit_record shows the stored value
\* as the current one, add_record "".
Answer(mode) ==
    LET ask == Prompts[field]
        line == IF attempt < Len(inputs[ask.key]) THEN inputs[ask.key][attempt + 1]
                ELSE << >>
        current_value == IF mode = "edit" THEN series[ask.key] ELSE TextVal(<< >>)
    IN  edit_prompt_and_validation(ask.prompt, current_value, ask.value_type,
                                   mode = "add" /\ ask.mandatory, line)

\* The follow-up question skipped on the answer 1 and asked otherwise.
SkipsFollowUpInverted(key, value) ==
    key \in {"pets", "critical_meds"} /\ value = IntVal(1)

\* edit_record lines 431-447, add_record lines 505-520: the follow-up question
\* is asked only when the answer is 1; otherwise its field is None.
SkipsFollowUp(key, value) == key \in {"pets", "critical_meds"} /\ value # IntVal(1)

Collected(answer) ==
    LET key == Prompts[field].key
        with_answer == updated_record @@ (key :> answer.value)
    IN  IF SkipsFollowUp(key, answer.value)
        THEN with_answer @@ (Prompts[field + 1].key :> Null)
        ELSE with_answer

NextPrompt(answer) ==
    IF SkipsFollowUp(Prompts[field].key, answer.value) THEN field + 2 ELSE field + 1

\* The same prompt again: the user's next line, or Enter once more.
Reprompt ==
    /\ attempt' = IF attempt < Len(inputs[Prompts[field].key]) THEN attempt + 1 ELSE attempt
    /\ UNCHANGED << field, updated_record >>

\* The prompt that follows, with what was collected.
Advance(answer) ==
    /\ field' = NextPrompt(answer)
    /\ attempt' = 0
    /\ updated_record' = Collected(answer)

\* One line typed at a prompt of edit_record (lines 425-471); after the last
\* prompt, the timestamp, the conversion to native values and the UPDATE
\* (lines 473-490), and back to the listing of view_records.
EditStep ==
    /\ pc = "edit"
    /\ UNCHANGED connection
    /\ LET answer == Answer("edit")
           collected == Collected(answer)
           values == [c \in Columns |-> native(collected[c])]
           updated_at == now
       IN  IF answer.raised THEN
               /\ pc' = "crashed"
               /\ report' = Said("ValueError")
               /\ last_write' = NoWrite
               /\ Idle
               /\ UNCHANGED << db, seq, now >>
           ELSE IF ~answer.accepted THEN
               /\ Reprompt
               /\ UNCHANGED << db, seq, now, pc, record_id, series, inputs, report,
                               last_write >>
           ELSE IF NextPrompt(answer) <= Len(Prompts) THEN
               /\ Advance(answer)
               /\ UNCHANGED << db, seq, now, pc, record_id, series, inputs, report,
                               last_write >>
           ELSE IF BreaksNotNull(values) THEN
               /\ pc' = "crashed"
               /\ report' = Said("IntegrityError")
               /\ last_write' = [op |-> "update", rows |-> <<values>>, failed |-> TRUE]
               /\ Idle
               /\ UNCHANGED << db, seq, now >>
           ELSE
               /\ db' = update_households(db, record_id, values, updated_at)
               /\ pc' = "view"
               /\ report' = Said("edited")
               /\ last_write' = [op |-> "update", rows |-> <<values>>, failed |-> FALSE]
               /\ Idle
               /\ UNCHANGED << seq, now >>

\* One line typed at a prompt of add_record (lines 500-542); after the last
\* prompt, the timestamps, the conversion to native values and the INSERT
\* (lines 544-566), and back to the menu.
AddStep ==
    /\ pc = "add"
    /\ UNCHANGED connection
    /\ LET answer == Answer("add")
           collected == Collected(answer)
           values == [c \in Columns |-> native(collected[c])]
           timestamp == now
       IN  IF answer.raised THEN
               /\ pc' = "crashed"
               /\ report' = Said("ValueError")
               /\ last_write' = NoWrite
               /\ Idle
               /\ UNCHANGED << db, seq, now >>
           ELSE IF ~answer.accepted THEN
               /\ Reprompt
               /\ UNCHANGED << db, seq, now, pc, record_id, series, inputs, report,
                               last_write >>
           ELSE IF NextPrompt(answer) <= Len(Prompts) THEN
               /\ Advance(answer)
               /\ UNCHANGED << db, seq, now, pc, record_id, series, inputs, report,
                               last_write >>
           ELSE IF connection = "none" THEN
               /\ pc' = "crashed"
               /\ report' = Said("AttributeError")
               /\ last_write' = NoWrite
               /\ Idle
               /\ UNCHANGED << db, seq, now >>
           ELSE IF BreaksNotNull(values) THEN
               /\ pc' = "crashed"
               /\ report' = Said("IntegrityError")
               /\ last_write' = [op |-> "insert", rows |-> <<values>>, failed |-> TRUE]
               /\ Idle
               /\ UNCHANGED << db, seq, now >>
           ELSE
               /\ db' = insert_households(db, seq + 1, values, timestamp, timestamp)
               /\ seq' = seq + 1
               /\ pc' = "menu"
               /\ report' = Said("added")
               /\ last_write' = [op |-> "insert", rows |-> <<values>>, failed |-> FALSE]
               /\ Idle
               /\ UNCHANGED now

\* main, option 5 (lines 591-593).
Exit ==
    /\ pc = "menu"
    /\ pc' = "exited"
    /\ report' = Said("exiting")
    /\ last_write' = NoWrite
    /\ UNCHANGED << db, seq, now, connection, flow >>

\* The process has ended and the module is loaded again: db_connection is
\* None (line 11), and cert_disaster.db holds what was committed.
Restart ==
    /\ pc \in {"crashed", "exited"}
    /\ pc' = "loaded"
    /\ connection' = "none"
    /\ report' = Said("started")
    /\ last_write' = NoWrite
    /\ Idle
    /\ UNCHANGED << db, seq, now >>

Next ==
    \/ DbSetup
    \/ Main
    \/ Tick
    \/ ImportCsv
    \/ ImportNotInitialized
    \/ ImportNoFile
    \/ ExportCsv
    \/ ViewRecords
    \/ ViewChoose
    \/ AddRecord
    \/ EditStep
    \/ AddStep
    \/ Exit
    \/ Restart

Spec == Init /\ [][Next]_vars

\* ----------------------------------------------------------------- claims
\* C1: after any sequence of imports, adds and edits, every stored record
\* with pets = 0 has dogs null, and every stored record with
\* critical_meds = 0 has meds_need_refrigerated null.
C1_ConditionalFieldsNull ==
    \A i \in 1..Len(db) :
        /\ db[i].v["pets"] = IntVal(0) => IsNa(db[i].v["dogs"])
        /\ db[i].v["critical_meds"] = IntVal(0) => IsNa(db[i].v["meds_need_refrigerated"])

\* An edit has just answered "no" to pets on a record, beside a record with
\* no critical medication.
C1_Witness ==
    /\ report.status = "edited"
    /\ last_write.rows[1]["pets"] = IntVal(0)
    /\ \E i \in 1..Len(db) : db[i].v["critical_meds"] = IntVal(0)

\* The checks C2 lists, on the text of a file: a missing column, an address,
\* phone or email out of format, adults or children that are no number, a
\* dependent field answered while its trigger is "no".
FailsListedCheck(file) ==
    \/ Columns \ file.columns # {}
    \/ \E r \in 1..Len(file.rows) :
        LET row == read_csv(file)[r]
        IN  \/ IsNa(row["address"])
            \/ ~validate_address(row["address"])
            \/ ~validate_phone(row["phone"])
            \/ ~validate_email(row["email"])
            \/ ~to_numeric(row["adults"]).ok
            \/ ~to_numeric(row["children"]).ok
            \/ /\ boolean_converter(row["pets"]) = IntVal(0)
               /\ ~IsNa(boolean_converter(row["dogs"]))
            \/ /\ boolean_converter(row["critical_meds"]) = IntVal(0)
               /\ ~IsNa(boolean_converter(row["meds_need_refrigerated"]))

FailingResults == {p[2] : p \in {q \in ImportOutcomes : FailsListedCheck(q[1])}}

\* C2: batch import is all-or-nothing: an import of a file in which a row
\* fails one of the listed checks leaves the stored records exactly as they
\* were, and any import either leaves them as they were or adds every row of
\* the file after them.
C2_BatchAllOrNothing ==
    [][(pc = "menu" /\ db' # db) =>
        /\ \A out \in FailingResults : ~Import(out)
        /\ \A out \in ImportResults :
            Import(out) =>
                /\ Len(db') = Len(db) + Len(out.frame)
                /\ SubSeq(db', 1, Len(db)) = db]_vars

\* A file was rejected for its second row while the table held records.
C2_Witness ==
    /\ report.status = "rejected"
    /\ db # << >>
    /\ \E pair \in report.pairs : pair[1] = 2

\* C3: every stored record with critical_meds = 1 has meds_need_refrigerated
\* 1 or 0, never null, whichever of import, add and edit wrote it.
C3_RefrigerationAnswered ==
    \A i \in 1..Len(db) :
        db[i].v["critical_meds"] = IntVal(1) =>
            db[i].v["meds_need_refrigerated"] \in {IntVal(0), IntVal(1)}

\* The tokens C4 allows in a boolean column.
AllowedTokens == TrueTokens \cup FalseTokens \cup NoneTokens

HasUnknownToken(file) ==
    \E r \in 1..Len(file.rows), c \in BooleanColumns :
        StrLower(StrStrip(file.rows[r][c])) \notin AllowedTokens

UnknownTokenResults == {p[2] : p \in {q \in ImportOutcomes : HasUnknownToken(q[1])}}

\* C4: a file with a token outside the allowed ones in a boolean column is
\* rejected, and nothing of it is stored.
C4_UnknownTokenRejected ==
    [][(pc = "menu" /\ (db' # db \/ report'.status # "rejected")) =>
        \A out \in UnknownTokenResults : ~Import(out)]_vars

\* C5: no INSERT or UPDATE is ever attempted with a record whose mandatory
\* field is null.
C5_NoNullReachesStorage ==
    \A r \in 1..Len(last_write.rows) : ~BreaksNotNull(last_write.rows[r])

\* An edit_record that ran to its UPDATE.
EditCommitted == pc = "edit" /\ pc' = "view"

\* C6 as stated: every successful edit leaves updated_at strictly greater
\* than it was.
C6_UpdatedAtStrictlyGreater ==
    [][EditCommitted =>
        \A i \in 1..Len(db) :
            db[i].id = record_id => db'[i].updated_at > db[i].updated_at]_vars

\* C6 as amended: every successful edit leaves updated_at at the second the
\* clock shows, which is never before the updated_at it had, and is after it
\* exactly when the clock has reached a later second since.
C6_UpdatedAtIsTimeOfEdit ==
    [][EditCommitted =>
        \A i \in 1..Len(db) :
            db[i].id = record_id =>
                /\ db'[i].updated_at = now
                /\ db'[i].updated_at >= db[i].updated_at
                /\ db'[i].updated_at > db[i].updated_at <=> now > db[i].updated_at]_vars

\* A record was edited in a later second than it was created in.
C6_Witness ==
    /\ report.status = "edited"
    /\ \E i \in 1..Len(db) :
        db[i].v = [c \in Columns |-> Stored(c, last_write.rows[1][c])]
            /\ db[i].updated_at > db[i].created_at

\* C7: every stored record has created_at <= updated_at; the rows an import
\* or an add appends carry the one timestamp of that operation in both, and
\* no operation rewrites the created_at of a stored record.
C7_CreatedBeforeUpdated ==
    /\ [](\A i \in 1..Len(db) : db[i].created_at <= db[i].updated_at)
    /\ [][/\ Len(db') >= Len(db)
          /\ \A i \in 1..Len(db) : db'[i].created_at = db[i].created_at
          /\ \A i \in Len(db) + 1..Len(db') :
                db'[i].created_at = now /\ db'[i].updated_at = now]_vars

\* A batch of two rows was imported and one of them edited later.
C7_Witness ==
    /\ Len(db) = 2
    /\ db[1].created_at = db[2].created_at
    /\ \E i \in 1..2 : db[i].created_at < db[i].updated_at

\* The user types one valid address and presses Enter at every other prompt.
AddressOnly(plan) ==
    /\ Len(plan["address"]) = 1
    /\ validate_address(TextVal(StrStrip(plan["address"][1])))
    /\ \A c \in Columns \ {"address"} :
        \A k \in 1..Len(plan[c]) : StrStrip(plan[c][k]) = << >>

\* C8: an edit that enters a new valid address and gives empty input to
\* every other prompt changes the address and updated_at of that record and
\* nothing else of the table.
C8_AddressOnlyEdit ==
    [][(EditCommitted /\ AddressOnly(inputs)) =>
        \E i \in 1..Len(db) :
            /\ db[i].id = record_id
            /\ db' = [db EXCEPT
                        ![i].v["address"] = TextVal(StrStrip(inputs["address"][1])),
                        ![i].updated_at = now]]_vars

\* A record with pets and a dog carries the address only an edit types, in a
\* table of two records.
C8_Witness ==
    /\ report.status = "edited"
    /\ Len(db) = 2
    /\ \E i \in 1..Len(db) :
        /\ db[i].v["address"] = TextVal(Address2)
        /\ db[i].v["pets"] = IntVal(1)
        /\ db[i].v["dogs"] = IntVal(1)
        /\ db[i].updated_at > db[i].created_at

\* C9: adults and children of every stored record are non-negative integers.
C9_HeadCountsNatural ==
    \A i \in 1..Len(db) : \A c \in {"adults", "children"} :
        db[i].v[c].t = "int" /\ db[i].v[c].i >= 0

\* Every (row, field) of a file that fails a check of the import, the checks
\* taken one by one on the text of the file.
OffendingBy(file, check) ==
    LET df == read_csv(file)
        rows == 1..Len(df)
    IN  CASE check = "columns" -> {0} \X (Columns \ file.columns)
          [] check = "address" ->
                {r \in rows : IsNa(df[r]["address"]) \/ ~validate_address(df[r]["address"])}
                    \X {"address"}
          [] check = "phone" -> {r \in rows : ~validate_phone(df[r]["phone"])} \X {"phone"}
          [] check = "email" -> {r \in rows : ~validate_email(df[r]["email"])} \X {"email"}
          [] check = "adults" -> {r \in rows : ~to_numeric(df[r]["adults"]).ok} \X {"adults"}
          [] check = "children" ->
                {r \in rows : ~to_numeric(df[r]["children"]).ok} \X {"children"}
          [] check = "dogs" ->
                {r \in rows : /\ boolean_converter(df[r]["pets"]) = IntVal(0)
                              /\ ~IsNa(boolean_converter(df[r]["dogs"]))} \X {"dogs"}
          [] check = "meds_need_refrigerated" ->
                {r \in rows : /\ boolean_converter(df[r]["critical_meds"]) = IntVal(0)
                              /\ ~IsNa(boolean_converter(df[r]["meds_need_refrigerated"]))}
                    \X {"meds_need_refrigerated"}

\* The checks in the order import_csv runs them.
CheckOrder ==
    << "columns", "address", "phone", "email", "adults", "children", "dogs",
       "meds_need_refrigerated" >>

AllOffending(file) ==
    UNION {OffendingBy(file, CheckOrder[k]) : k \in 1..Len(CheckOrder)}

\* What the first failing check finds: all its rows, or for a column of
\* numbers the first row that does not parse.
FirstCheckFindings(file) ==
    LET failing == {k \in 1..Len(CheckOrder) : OffendingBy(file, CheckOrder[k]) # {}}
        first == Minimum(failing)
        found == OffendingBy(file, CheckOrder[first])
    IN  IF failing = {} THEN {}
        ELSE IF CheckOrder[first] \in {"adults", "children"}
        THEN {pair \in found : \A other \in found : pair[1] <= other[1]}
        ELSE found

\* Per file that import_validate rejects: what it makes of the file, all the
\* file's offences, and those of its first failing check.
Findings ==
    {<<p[2], AllOffending(p[1]), FirstCheckFindings(p[1])>> :
        p \in {q \in ImportOutcomes : q[2].status = "rejected"}}

\* The import that printed the report now showing was of a file import_validate
\* made `out` of.
Reported(out) == report'.check = out.check /\ report'.pairs = out.pairs /\ Import(out)

\* C10 as stated: the report of a rejected file holds every offending
\* (row, field) of the file, across all checks.
C10_ReportHoldsAllFailures ==
    [][(pc = "menu" /\ report'.status = "rejected") =>
        \A f \in Findings : Reported(f[1]) => f[2] \subseteq report'.pairs]_vars

\* C10 as amended: the report of a rejected file holds the offending
\* (row, field) pairs of the first check that fails, in the order columns,
\* address, phone, email, adults, children, dogs, meds_need_refrigerated:
\* every row that check finds (for adults and children the first value that
\* is no number), and nothing of the checks after it.
C10_ReportHoldsFirstFailingCheck ==
    [][(pc = "menu" /\ report'.status = "rejected") =>
        \A f \in Findings : Reported(f[1]) => report'.pairs = f[3]]_vars

\* A file was rejected for the address of both of its rows.
C10_Witness ==
    /\ report.status = "rejected"
    /\ report.check = "address"
    /\ Cardinality(report.pairs) = 2

\* The fields add_record asks with mandatory=False, and the two follow-ups.
OptionalColumns ==
    { "phone", "email", "has_medical_training", "know_neighbors", "has_neighbors_key",
      "wants_newsletter", "can_cert_contact" }

ConditionalColumns == {"dogs", "meds_need_refrigerated"}

\* An add_record that ran to its INSERT.
AddCommitted == pc = "add" /\ pc' = "menu"

\* The user presses Enter, and nothing else, at the prompt of column c.
EmptyAt(c) == \A k \in 1..Len(inputs[c]) : StrStrip(inputs[c][k]) = << >>

\* The follow-up prompt of column c is asked of a record with these values.
PromptedIn(c, values) ==
    /\ c = "dogs" => values["pets"] = IntVal(1)
    /\ c = "meds_need_refrigerated" => values["critical_meds"] = IntVal(1)

\* C11, the edit flow: empty input at the prompt of an optional or prompted
\* conditional field keeps the value the record has.
EditKeepsOnEmpty ==
    EditCommitted =>
        \A i \in 1..Len(db) :
            db[i].id = record_id =>
                \A c \in OptionalColumns \cup ConditionalColumns :
                    (EmptyAt(c) /\ PromptedIn(c, db'[i].v)) => db'[i].v[c] = db[i].v[c]

\* C11: in the add flow empty input for an optional or conditional field
\* leaves the field null in the stored record; in the edit flow empty input
\* keeps the field's stored value.
C11_EmptyInputNullOrKept ==
    [][/\ AddCommitted =>
            \A c \in OptionalColumns \cup ConditionalColumns :
                EmptyAt(c) => db'[Len(db')].v[c] = Null
       /\ EditKeepsOnEmpty]_vars

\* C12: without a connection every menu operation fails for that operation
\* only: nothing is written and the menu comes back, the program never ends
\* on an uncaught exception; and an edit of an id that is not stored writes
\* nothing and returns.
C12_OperationFailsAlone ==
    /\ [](connection = "none" => pc # "crashed")
    /\ [][connection = "none" => db' = db]_vars
    /\ [][(pc = "view" /\ report'.status = "not found") => (db' = db /\ pc' = "view")]_vars

\* A prompt of add_record or edit_record is waiting for a line.
InFlow == pc \in {"add", "edit"}

\* The line the user types next at the prompt being asked, as the prompt
\* reads it: stripped, and in lower case at a yes/no prompt.
TypedInput ==
    LET ask == Prompts[field]
        line == IF attempt < Len(inputs[ask.key]) THEN inputs[ask.key][attempt + 1]
                ELSE << >>
    IN  IF ask.value_type = "bool" THEN StrLower(StrStrip(line)) ELSE StrStrip(line)

\* The validation C13 names for each kind of field: a boolean token, a
\* digits-only integer, the address, phone and email grammars.
ValidFor(ask, input) ==
    CASE ask.value_type = "bool" -> input \in YesInputs \cup NoInputs
      [] ask.value_type = "int" -> IsDecimal(input)
      [] ask.key = "address" -> validate_address(TextVal(input))
      [] ask.key = "phone" -> validate_phone(TextVal(input))
      [] ask.key = "email" -> validate_email(TextVal(input))
      [] OTHER -> TRUE

\* The line typed is one C13 says is rejected.
RejectedInput ==
    /\ InFlow
    /\ \/ TypedInput # << >> /\ ~ValidFor(Prompts[field], TypedInput)
       \/ TypedInput = << >> /\ pc = "add" /\ Prompts[field].mandatory

\* C13: in the add and edit flows a line that fails the field's validation,
\* or an empty line at a mandatory prompt of add, is not accepted: the same
\* prompt is asked again and nothing is written; a write happens only at the
\* last prompt, with every field collected; and a flow that ends, ends with
\* exactly one successful write.
C13_PromptAcceptsOrAsksAgain ==
    [][/\ RejectedInput =>
            /\ pc' = pc
            /\ field' = field
            /\ updated_record' = updated_record
            /\ db' = db
            /\ last_write' = last_write
       /\ (InFlow /\ (db' # db \/ last_write' # last_write)) =>
            /\ field = Len(Prompts)
            /\ DOMAIN updated_record \cup {Prompts[field].key} = Columns
       /\ (InFlow /\ connection = "open" /\ pc' # pc) =>
            /\ last_write'.op = IF pc = "add" THEN "insert" ELSE "update"
            /\ Len(last_write'.rows) = 1
            /\ ~last_write'.failed
            /\ Len(db') = IF pc = "add" THEN Len(db) + 1 ELSE Len(db)]_vars
====
